---- MODULE Spec2Model ----
(***************************************************************************)
(* Career-Conversation-Agent: the Q&A knowledge store (sqlite table qa),   *)
(* its seeding at start-up, the tool functions that write to it, and the   *)
(* chat turn generator (CareerManager.run / Me.chat_async) that streams a  *)
(* reply produced by an agent run with four input guardrails.              *)
(*                                                                         *)
(* The repository holds the same design twice: the package                 *)
(* (career_manager.py, career_agents/, tools/, database/) and the          *)
(* single-file program app.py.  Both use the same database file            *)
(* (DB_PATH = "me/qa_database.db"), so the variant is a parameter of each  *)
(* operation: "pkg" or "app".                                              *)
(*                                                                         *)
(* Text is modelled as a sequence of symbols (one-element strings).        *)
(***************************************************************************)
EXTENDS Integers, Sequences, FiniteSets, TLC

\* ------------------------------------------------------------------ bounds
MaxClock == 1          \* CURRENT_TIMESTAMP values 0..MaxClock (one-second ticks)
MaxResumeQa == 1       \* how many of the fixed resume/LinkedIn pairs are kept
MaxSeedCalls == 2      \* seed_database() calls in one behaviour
MaxToolWrites == 1     \* tool writes to the store in one behaviour (store spec)
MaxBurst == 5          \* rows added within one second before the tool calls
MaxDocLines == 4       \* lines of me/summary.md (document spec)
MaxDeltas == 2         \* text delta events in one turn
MaxTools == 2          \* tool invocations in one turn
MaxModelCalls == 3     \* model calls of the agent loop in one turn

Variants == {"pkg", "app"}
Procs == {1, 2}

\* ------------------------------------------------------------- text helpers
WS == {" ", "\n"}
H3 == <<"#", "#", "#", " ">>
H4 == <<"#", "#", "#", "#">>

StartsWith(s, p) == Len(s) >= Len(p) /\ SubSeq(s, 1, Len(p)) = p

IsPrefix(s, t) == StartsWith(t, s)

RECURSIVE LStrip(_)
LStrip(s) == IF s # <<>> /\ Head(s) \in WS THEN LStrip(Tail(s)) ELSE s

RECURSIVE RStrip(_)
RStrip(s) ==
    IF s # <<>> /\ s[Len(s)] \in WS THEN RStrip(SubSeq(s, 1, Len(s) - 1)) ELSE s

Strip(s) == LStrip(RStrip(s))

\* "\n".join(lines)
RECURSIVE JoinNl(_)
JoinNl(ls) ==
    IF ls = <<>> THEN <<>>
    ELSE IF Len(ls) = 1 THEN ls[1]
    ELSE ls[1] \o <<"\n">> \o JoinNl(Tail(ls))

\* s contains pat as a contiguous substring (Python: pat in s)
Contains(s, pat) ==
    \E i \in 1..(Len(s) - Len(pat) + 1) : SubSeq(s, i, i + Len(pat) - 1) = pat

\* ------------------------------------------------------------ the document
\* The inner while loop of parse_qa_from_summary: collects the answer lines
\* from line i on, stops at the first heading or at the end.
RECURSIVE CollectAnswer(_, _, _)
CollectAnswer(lines, i, answer_lines) ==
    IF i > Len(lines) THEN [answer_lines |-> answer_lines, i |-> i]
    ELSE LET next_line == Strip(lines[i]) IN
         IF StartsWith(next_line, <<"#">>)
         THEN [answer_lines |-> answer_lines, i |-> i]
         ELSE CollectAnswer(lines, i + 1,
                  IF next_line # <<>> \/ answer_lines # <<>>
                  THEN Append(answer_lines, RStrip(lines[i]))
                  ELSE answer_lines)

\* The outer while loop of parse_qa_from_summary from line i on.
RECURSIVE ParseFrom(_, _, _)
ParseFrom(lines, i, qa_pairs) ==
    IF i > Len(lines) THEN qa_pairs
    ELSE LET line == Strip(lines[i]) IN
         IF StartsWith(line, H3) /\ ~StartsWith(line, H4)
         THEN LET question == Strip(SubSeq(line, 5, Len(line)))
                  r == CollectAnswer(lines, i + 1, <<>>)
                  answer == Strip(JoinNl(r.answer_lines))
              IN ParseFrom(lines, r.i,
                     IF answer # <<>>
                     THEN Append(qa_pairs, [question |-> question, answer |-> answer])
                     ELSE qa_pairs)
         ELSE ParseFrom(lines, i + 1, qa_pairs)

ParseFromSecondLine(lines) == ParseFrom(lines, 2, <<>>)

parse_qa_from_summary(lines) == ParseFrom(lines, 1, <<>>)

\* me/summary.md as it may be on disk, already split at "\n".
SummaryDocs ==
    { << <<>> >>,
      << <<"#", "#", "#", " ", "x">>, <<>>, <<"x", " ">> >> }

\* get_resume_linkedin_qa(): eleven fixed pairs with distinct questions; the
\* model keeps the first MaxResumeQa of them.
ResumeTags == <<"1", "2", "3", "4", "5", "6", "7", "8", "9", "10", "11">>

get_resume_linkedin_qa ==
    [i \in 1..MaxResumeQa |->
        [question |-> <<"r", ResumeTags[i]>>, answer |-> <<"a", ResumeTags[i]>>]]

\* The pairs one seed_database() call inserts, in order.  The package adds
\* the resume/LinkedIn pairs after the parsed ones, app.py does not.
SeedEntries(v, lines) ==
    IF v = "pkg" THEN parse_qa_from_summary(lines) \o get_resume_linkedin_qa
    ELSE parse_qa_from_summary(lines)

\* ---------------------------------------------------------------- the store
\* placeholder_answer of record_unknown_question; "N" stands for the words
\* ANSWER NEEDED, "W" for the warning sign and blank app.py puts before them,
\* "-" for the rest of the text.
PlaceholderAnswer(v) == IF v = "pkg" THEN <<"N", "-">> ELSE <<"W", "N", "-">>

Questions == { <<"x">>, <<"y">> }
Answers == { <<"b">>, <<"N">> }

VARIABLES
    store,        \* table qa: sequence of rows in insertion (id) order
    now,          \* CURRENT_TIMESTAMP
    summary,      \* lines of me/summary.md
    seedPc,       \* per process: "idle" | "inserting" | "failed"
    seedTodo,     \* per process: the pairs its seed_database() still inserts
    seedCalls,    \* seed_database() calls made
    seedPassed,   \* per process: calls of it that found the store empty
    seedOverlap,  \* some seed_database() call started while another ran
    seedVariants, \* variants whose seed_database() was called
    toolWrites,   \* tool writes made (store spec)
    lastWrite,    \* the write tool call of the latest step, or of the step before a read tool call
    lastRead      \* the read tool call of the latest step

storeVars == <<store, now, summary, seedPc, seedTodo, seedCalls, seedPassed,
               seedOverlap, seedVariants, toolWrites, lastWrite, lastRead>>

\* INSERT INTO qa (question, answer): id is AUTOINCREMENT, created_at defaults
\* to CURRENT_TIMESTAMP.
InsertDedup(st, q, a, t) ==
    IF \E i \in 1..Len(st) : st[i].question = q THEN st
    ELSE Append(st, [id |-> Len(st) + 1, question |-> q, answer |-> a,
                     created_at |-> t])

insert_qa(st, q, a, t) ==
    Append(st, [id |-> Len(st) + 1, question |-> q, answer |-> a,
                created_at |-> t])

\* The ids the subquery of update_qa can return: a row with this question of
\* the greatest created_at (ORDER BY created_at DESC LIMIT 1 does not order
\* rows of equal created_at).
UpdateTargets(st, q) ==
    { i \in 1..Len(st) :
        /\ st[i].question = q
        /\ \A j \in 1..Len(st) :
              st[j].question = q => st[j].created_at <= st[i].created_at }

UpdateReinsert(st, id, new_answer) ==
    [i \in 1..Len(st) |->
        IF i < id THEN st[i]
        ELSE IF i < Len(st) THEN st[i + 1]
        ELSE [st[id] EXCEPT !.answer = new_answer]]

update_qa(st, id, new_answer) == [st EXCEPT ![id].answer = new_answer]

\* The (question, answer) pairs of the store in id order.
Pairs(st) == [i \in 1..Len(st) |-> [question |-> st[i].question,
                                    answer |-> st[i].answer]]

\* How many rows hold this pair.
CountPair(st, e) ==
    Cardinality({ i \in 1..Len(st) :
                    st[i].question = e.question /\ st[i].answer = e.answer })

\* seed_database: the test on the rows fetch_all_qa() returned.
AlwaysSeed(qa_pairs) == TRUE

ShouldSeed(qa_pairs) == Len(qa_pairs) = 0


\* ------------------------------------------------------------- the chat turn
RedirectText == <<"R">>

\* The content of the assistant placeholder: "..." in CareerManager.run, ""
\* in Me.chat_async.
Placeholder(v) == IF v = "pkg" THEN <<".", ".", ".">> ELSE <<>>

Deltas == { <<"a">>, <<"b">> }
TurnQuestion == <<"x">>   \* the question argument of the turn's tool calls
TurnAnswer == <<"c">>     \* their answer argument
Message == <<"m">>
InputHistories ==
    { <<>>,
      << [role |-> "user", content |-> <<"h">>],
         [role |-> "assistant", content |-> <<"i">>] >> }

Filters == {"inappropriate", "injection", "off_topic", "competitor"}
Blocking == {"inappropriate", "injection"}

StoreTools == {"record_unknown_question", "add_qa_to_database", "update_qa_answer"}
ReadTools == {"search_qa_database", "list_recent_qa", "send_contact_email"}

VARIABLES
    impl,         \* which generator runs the turn: "pkg" (CareerManager.run) or "app" (Me.chat_async)
    pc,           \* position of the generator: "start" | "run" | "stream" | "done" | "blocked" | "failed"
    dicts,        \* heap of message dicts {"role", "content"}
    lists,        \* heap of Python lists of dict references; lists[1] is the caller's history argument
    history,      \* the list the local variable history refers to
    first_token,  \* local variable of CareerManager.run
    emitted,      \* what the caller saw at each yield, as values
    input0,       \* the value of the caller's history argument at the call
    store0,       \* the store when the turn began
    verdict,      \* per filter: what its classifier returned: "pending" | "yes" | "no" | "error"
    agentPc,      \* the agent run: "idle" | "call" | "responding" | "final"
    modelCalls,   \* model calls of the agent run
    nDeltas,      \* text delta events received
    deltaText,    \* concatenation of the text deltas received
    nTools,       \* tools invoked in the turn
    evals,        \* verdicts evaluate_my_response returned to the model, in order
    regens,       \* model calls made on a rejecting verdict of evaluate_my_response
    errs          \* failed upstream calls of the turn, in order

turnVars == <<impl, pc, dicts, lists, history, first_token, emitted, input0,
              store0, verdict, agentPc, modelCalls, nDeltas, deltaText,
              nTools, evals, regens, errs>>

vars == <<store, now, summary, seedPc, seedTodo, seedCalls, seedPassed,
          seedOverlap, seedVariants, toolWrites, lastWrite, lastRead,
          impl, pc, dicts, lists, history, first_token, emitted, input0,
          store0, verdict, agentPc, modelCalls, nDeltas, deltaText,
          nTools, evals, regens, errs>>

\* ------------------------------------------------------------ store actions
NoOp == [tool |-> "none"]

StoreIdle ==
    /\ seedPc = [p \in Procs |-> "idle"]
    /\ seedTodo = [p \in Procs |-> <<>>]
    /\ seedCalls = 0
    /\ seedPassed = [p \in Procs |-> 0]
    /\ seedOverlap = FALSE
    /\ seedVariants = {}
    /\ toolWrites = 0
    /\ lastWrite = NoOp
    /\ lastRead = NoOp

TurnIdle ==
    /\ impl = "pkg"
    /\ pc = "start"
    /\ dicts = <<>>
    /\ lists = << <<>> >>
    /\ history = 1
    /\ first_token = TRUE
    /\ emitted = <<>>
    /\ input0 = <<>>
    /\ store0 = <<>>
    /\ verdict = [k \in Filters |-> "pending"]
    /\ agentPc = "idle"
    /\ modelCalls = 0
    /\ nDeltas = 0
    /\ deltaText = <<>>
    /\ nTools = 0
    /\ evals = <<>>
    /\ regens = 0
    /\ errs = <<>>

Init ==
    /\ store = <<>>
    /\ now = 0
    /\ summary \in SummaryDocs
    /\ StoreIdle
    /\ TurnIdle

\* One second passes.
Tick ==
    /\ now < MaxClock
    /\ now' = now + 1
    /\ lastWrite' = NoOp
    /\ lastRead' = NoOp
    /\ UNCHANGED <<store, summary, seedPc, seedTodo, seedCalls, seedPassed,
                   seedOverlap, seedVariants, toolWrites>>
    /\ UNCHANGED turnVars

\* seed_database() up to its first insert: fetch_all_qa(), the test on the
\* rows fetched, parse_qa_from_summary() and get_resume_linkedin_qa().  A call
\* that has nothing to insert returns here.
SeedFetch(p, v) ==
    /\ seedPc[p] = "idle"
    /\ seedCalls < MaxSeedCalls
    /\ LET qa_pairs == store
           todo == IF ShouldSeed(qa_pairs) THEN SeedEntries(v, summary) ELSE <<>>
       IN /\ seedTodo' = [seedTodo EXCEPT ![p] = todo]
          /\ seedPc' = [seedPc EXCEPT ![p] = IF todo = <<>> THEN "idle" ELSE "inserting"]
          /\ seedPassed' = [seedPassed EXCEPT ![p] = IF Len(qa_pairs) = 0 THEN @ + 1 ELSE @]
    /\ seedCalls' = seedCalls + 1
    /\ seedOverlap' = (seedOverlap \/ \E o \in Procs \ {p} : seedPc[o] = "inserting")
    /\ seedVariants' = seedVariants \cup {v}
    /\ UNCHANGED <<store, now, summary, toolWrites, lastWrite, lastRead>>
    /\ UNCHANGED turnVars

\* One insert_qa() of the for loops of seed_database().
SeedInsert(p) ==
    /\ seedPc[p] = "inserting"
    /\ LET qa == Head(seedTodo[p]) IN
          store' = insert_qa(store, qa.question, qa.answer, now)
    /\ seedTodo' = [seedTodo EXCEPT ![p] = Tail(@)]
    /\ seedPc' = [seedPc EXCEPT ![p] = IF Tail(seedTodo[p]) = <<>> THEN "idle" ELSE "inserting"]
    /\ UNCHANGED <<now, summary, seedCalls, seedPassed, seedOverlap,
                   seedVariants, toolWrites, lastWrite, lastRead>>
    /\ UNCHANGED turnVars

\* An insert_qa() of the for loops of seed_database() raises (sqlite3): the
\* exception leaves seed_database(), which has no handler, and the process
\* ends.  The rows inserted before are committed; seedTodo keeps the entries
\* that were not inserted.
SeedFailRollback(p) ==
    /\ seedPc[p] = "inserting"
    /\ seedPc' = [seedPc EXCEPT ![p] = "failed"]
    /\ store' = <<>>
    /\ UNCHANGED <<now, summary, seedTodo, seedCalls, seedPassed, seedOverlap,
                   seedVariants, toolWrites, lastWrite, lastRead>>
    /\ UNCHANGED turnVars

SeedFail(p) ==
    /\ seedPc[p] = "inserting"
    /\ seedPc' = [seedPc EXCEPT ![p] = "failed"]
    /\ UNCHANGED <<store, now, summary, seedTodo, seedCalls, seedPassed,
                   seedOverlap, seedVariants, toolWrites, lastWrite, lastRead>>
    /\ UNCHANGED turnVars

\* record_unknown_question(question)
RecordUnknown(st, v, q, t) == insert_qa(st, q, PlaceholderAnswer(v), t)

\* add_qa_to_database(question, answer)
AddQaUpsert(st, q, a, t) ==
    IF UpdateTargets(st, q) = {} THEN insert_qa(st, q, a, t)
    ELSE update_qa(st, CHOOSE id \in UpdateTargets(st, q) : TRUE, a)

AddQa(st, q, a, t) == insert_qa(st, q, a, t)

\* The stores update_qa_answer(question, new_answer) can leave.
UpdateQaAnswer(st, q, a) ==
    IF UpdateTargets(st, q) = {} THEN {st}
    ELSE { update_qa(st, id, a) : id \in UpdateTargets(st, q) }

\* The stores a tool call can leave.
ToolEffects(st, v, tool, q, a, t) ==
    IF tool = "record_unknown_question" THEN {RecordUnknown(st, v, q, t)}
    ELSE IF tool = "add_qa_to_database" THEN {AddQa(st, q, a, t)}
    ELSE IF tool = "update_qa_answer" THEN UpdateQaAnswer(st, q, a)
    ELSE {st}

\* ---------------------------------------------------------- tool outcomes
\* What a tool function call comes to: the dict it returns, or the exception
\* that leaves it.
Returned(value) == [kind |-> "result", value |-> value]
Raised(exc) == [kind |-> "raised", exc |-> exc]

\* Python's None in a result.
None == <<"None">>

\* cursor.rowcount of the UPDATE of update_qa: the subquery has LIMIT 1.
rows_affected(st, q) == IF UpdateTargets(st, q) = {} THEN 0 ELSE 1

\* The test on rows_affected that decides what update_qa reports.
UpdatedAlways(n) == n >= 0

Updated(n) == n > 0

\* update_qa_answer once the database took the statement: the stores it can
\* leave, each with the id of the row updated (0: none) and the dict returned.
UpdateDone(st, q, a) ==
    LET ids == IF UpdateTargets(st, q) = {} THEN {0} ELSE UpdateTargets(st, q)
    IN { [store |-> IF id = 0 THEN st ELSE update_qa(st, id, a),
          id |-> id,
          out |-> IF Updated(rows_affected(st, q))
                  THEN Returned([updated |-> TRUE,
                                 message |-> <<"Successfully updated answer for: ">> \o q])
                  ELSE Returned([updated |-> FALSE,
                                 message |-> <<"Question not found: ">> \o q])]
         : id \in ids }

\* A write tool call once the database took the statement: the store it
\* leaves, the row inserted or updated (0: none) and the dict returned.
WriteDone(st, v, tool, q, a, t) ==
    IF tool = "record_unknown_question"
    THEN { [store |-> RecordUnknown(st, v, q, t), id |-> Len(RecordUnknown(st, v, q, t)),
            out |-> Returned([recorded |-> "ok", added_to_database |-> TRUE,
                              message |-> <<"Question recorded for Sam to answer later">>])] }
    ELSE IF tool = "add_qa_to_database"
    THEN { [store |-> AddQa(st, q, a, t), id |-> Len(AddQa(st, q, a, t)),
            out |-> Returned([added |-> TRUE,
                              message |-> <<"Successfully added Q&A pair to database">>])] }
    ELSE UpdateDone(st, q, a)

\* A write tool call: the database fails (sqlite3 raises, nothing is
\* committed) or the call goes through.
WriteEffects(st, v, tool, q, a, t) ==
    { [db |-> "failed", store |-> st, id |-> 0, out |-> Raised("sqlite3.Error")] }
        \cup { [db |-> "ok"] @@ e : e \in WriteDone(st, v, tool, q, a, t) }

\* ------------------------------------------------------------- read tools
\* The text search_qa_database and list_recent_qa look for in an answer:
\* "ANSWER NEEDED" in tools/qa_tools.py, the same words after the warning
\* sign in app.py.
SentinelMarker(v) == IF v = "pkg" THEN <<"N">> ELSE <<"W", "N">>

\* ORDER BY created_at DESC leaves the order of rows of one second to the
\* query plan: sqlite returns them in the order of its scan of the table, by
\* ascending or by descending id.
TieOrders == {"asc", "desc"}

\* The row the SELECT of fetch_all_qa returns first among the rows S.
FirstRow(st, S, tie) ==
    CHOOSE i \in S : \A j \in S \ {i} :
        \/ st[j].created_at < st[i].created_at
        \/ /\ st[j].created_at = st[i].created_at
           /\ IF tie = "asc" THEN i < j ELSE j < i

RECURSIVE FetchFrom(_, _, _)
FetchFrom(st, S, tie) ==
    IF S = {} THEN <<>>
    ELSE LET i == FirstRow(st, S, tie)
         IN << [id |-> st[i].id, question |-> st[i].question,
                answer |-> st[i].answer] >> \o FetchFrom(st, S \ {i}, tie)

\* fetch_all_qa(): the question and answer of every row (the id is kept to
\* tell the rows apart).
fetch_all_qa(st, tie) == FetchFrom(st, 1..Len(st), tie)

\* [qa for qa in qa_pairs if MARKER not in qa['answer']]
AnsweredPairs(v, qa_pairs) ==
    SelectSeq(qa_pairs, LAMBDA qa : ~Contains(qa.answer, SentinelMarker(v)))

\* `if not answered_qa_pairs: return ...`: whether search_qa_database goes on
\* to the matcher.
MatcherAlways(answered_qa_pairs) == TRUE

MatcherNeeded(answered_qa_pairs) == Len(answered_qa_pairs) > 0

\* What the matcher's model call can come to: it fails, or its message
\* content is text that is no JSON, a JSON object of another shape, the
\* no-match object, or a match carrying the answer of an entry of the context.
MatcherReplies(answered_qa_pairs) ==
    { [api |-> "error", from |-> 0] }
    \cup { [api |-> "ok", from |-> 0, content |-> [syntax |-> "text"]] }
    \cup { [api |-> "ok", from |-> 0,
            content |-> [syntax |-> "json", value |-> [match |-> TRUE]]] }
    \cup { [api |-> "ok", from |-> 0,
            content |-> [syntax |-> "json",
                         value |-> [found |-> FALSE, answer |-> None]]] }
    \cup { [api |-> "ok", from |-> answered_qa_pairs[i].id,
            content |-> [syntax |-> "json",
                         value |-> [found |-> TRUE,
                                    answer |-> answered_qa_pairs[i].answer]]]
           : i \in 1..Len(answered_qa_pairs) }

\* json.loads(response.choices[0].message.content)
json_loads(content) ==
    IF content.syntax = "json" THEN Returned(content.value)
    ELSE Raised("json.JSONDecodeError")

\* No message content: the matcher was not called, or its call failed.
NoContent == [syntax |-> "none"]

\* search_qa_database(question) on the rows fetched, with the reply of the
\* matcher: the outcome, whether the matcher was called, the ids of the rows
\* of its context, the message content it replied with and the row whose
\* answer it gave back (0: none).
search_qa_database(v, qa_pairs, reply) ==
    LET answered_qa_pairs == AnsweredPairs(v, qa_pairs)
        context == { answered_qa_pairs[i].id : i \in 1..Len(answered_qa_pairs) }
    IN IF Len(qa_pairs) = 0
       THEN [out |-> Returned([found |-> FALSE, answer |-> None,
                               message |-> <<"Database is empty">>]),
             called |-> FALSE, context |-> {}, content |-> NoContent, from |-> 0]
       ELSE IF ~MatcherNeeded(answered_qa_pairs)
       THEN [out |-> Returned([found |-> FALSE, answer |-> None,
                               message |-> <<"No answered questions in database yet">>]),
             called |-> FALSE, context |-> {}, content |-> NoContent, from |-> 0]
       ELSE IF reply.api = "error"
       THEN [out |-> Raised("openai.APIError"),
             called |-> TRUE, context |-> context, content |-> NoContent, from |-> 0]
       ELSE [out |-> json_loads(reply.content),
             called |-> TRUE, context |-> context, content |-> reply.content,
             from |-> reply.from]

\* What a call of search_qa_database(question) can come to.
SearchOutcomes(st, v, q) ==
    { [db |-> "failed", q |-> q, out |-> Raised("sqlite3.Error"), called |-> FALSE,
       context |-> {}, content |-> NoContent, from |-> 0] }
    \cup { [db |-> "ok", q |-> q] @@ search_qa_database(v, fetch_all_qa(st, tie), reply)
           : tie \in TieOrders,
             reply \in MatcherReplies(AnsweredPairs(v, fetch_all_qa(st, "asc"))) }

\* The default of the limit parameter of list_recent_qa.
DefaultLimit == 5
Limits == {-1, 0, 1, DefaultLimit}

\* Python's seq[:n]
Slice(seq, n) ==
    IF n >= 0
    THEN SubSeq(seq, 1, IF n < Len(seq) THEN n ELSE Len(seq))
    ELSE SubSeq(seq, 1, IF Len(seq) + n > 0 THEN Len(seq) + n ELSE 0)

\* list_recent_qa(limit) on the rows fetched.
list_recent_qa(v, qa_pairs, limit) ==
    LET recent == Slice(qa_pairs, limit)
        flagged == [i \in 1..Len(recent) |->
                      [id |-> recent[i].id, question |-> recent[i].question,
                       answer |-> recent[i].answer,
                       needs_answer |-> Contains(recent[i].answer, SentinelMarker(v))]]
    IN Returned([count |-> Len(recent), qa_pairs |-> flagged,
                 message |-> [retrieved |-> Len(recent)]])

\* What a call of list_recent_qa(limit) can come to.
ListOutcomes(st, v, limit) ==
    { [db |-> "failed", limit |-> limit, out |-> Raised("sqlite3.Error")] }
    \cup { [db |-> "ok", limit |-> limit, out |-> list_recent_qa(v, fetch_all_qa(st, tie), limit)]
           : tie \in TieOrders }

\* ------------------------------------------------------ send_contact_email
Emails == { <<"u">> }

\* str(e) of the exceptions the SendGrid block can raise.
ErrorTexts == { <<"e", "403">>, <<"e", "Forbidden">>, <<"e", "401">>,
                <<"e", "Unauthorized">>, <<"e", "timeout">> }

\* The return of the last branch of the handler of the SendGrid block.
ErrorReplyWithText(email, error_msg) ==
    [status |-> "error", message |-> <<"trouble">> \o error_msg \o email]

ErrorReply(email, error_msg) ==
    [status |-> "error", message |-> <<"trouble">> \o email]

\* `except Exception as e:` of send_contact_email.
TransportFailed(email, error_msg) ==
    IF Contains(error_msg, <<"403">>) \/ Contains(error_msg, <<"Forbidden">>)
    THEN [status |-> "error", message |-> <<"sender verification">> \o email]
    ELSE IF Contains(error_msg, <<"401">>) \/ Contains(error_msg, <<"Unauthorized">>)
    THEN [status |-> "error", message |-> <<"authentication">> \o email]
    ELSE ErrorReply(email, error_msg)

\* send_contact_email(email, ...): the summary run, then the SendGrid block.
\* transport is <<"ok">> or the text of the exception the block raised.
send_contact_email(email, summaryOk, transport) ==
    IF ~summaryOk
    THEN [email |-> email, out |-> Raised("summary run"), transport |-> <<"none">>]
    ELSE IF transport = <<"ok">>
    THEN [email |-> email, transport |-> transport,
          out |-> Returned([status |-> "success", message |-> <<"sent">> \o email])]
    ELSE [email |-> email, transport |-> transport,
          out |-> Returned(TransportFailed(email, transport))]

\* What a call of send_contact_email can come to.
EmailOutcomes(email) ==
    { send_contact_email(email, summaryOk, transport)
      : summaryOk \in BOOLEAN, transport \in { <<"ok">> } \cup ErrorTexts }

\* What a call of a tool that writes nothing can come to.
ReadOutcomes(st, v, tool, q, limit, email) ==
    IF tool = "search_qa_database" THEN SearchOutcomes(st, v, q)
    ELSE IF tool = "list_recent_qa" THEN ListOutcomes(st, v, limit)
    ELSE EmailOutcomes(email)

\* A tool of some conversation writes to the store.
ToolWrite(v, tool, q, a) ==
    /\ toolWrites < MaxToolWrites
    /\ store' \in ToolEffects(store, v, tool, q, a, now)
    /\ toolWrites' = toolWrites + 1
    /\ UNCHANGED <<now, summary, seedPc, seedTodo, seedCalls, seedPassed,
                   seedOverlap, seedVariants, lastWrite, lastRead>>
    /\ UNCHANGED turnVars

Next ==
    \/ Tick
    \/ \E p \in Procs, v \in Variants : SeedFetch(p, v)
    \/ \E p \in Procs : SeedInsert(p)
    \/ \E v \in Variants, tool \in StoreTools, q \in Questions, a \in Answers :
          ToolWrite(v, tool, q, a)

Spec == Init /\ [][Next]_vars


\* -------------------------------------------------------------- tool calls
\* The tool functions called on a store that start-up and earlier
\* conversations left.
RECURSIVE InsertAll(_, _, _)
InsertAll(st, entries, t) ==
    IF entries = <<>> THEN st
    ELSE InsertAll(insert_qa(st, Head(entries).question, Head(entries).answer, t),
                   Tail(entries), t)

\* The store after seed_database() of one process.
SeededStore(v, doc) == InsertAll(<<>>, SeedEntries(v, doc), 0)

\* The store after seed_database() of two processes that both found it empty,
\* the second inserting in second t.
DoubledStore(v, doc, t) == InsertAll(SeededStore(v, doc), SeedEntries(v, doc), t)

\* The store after MaxBurst add_qa_to_database calls within one second.
BurstStore ==
    InsertAll(<<>>, [i \in 1..MaxBurst |-> [question |-> <<"y">>, answer |-> <<"b">>]], 0)

\* The store after record_unknown_question(<<"y">>) of code path w on the
\* store a seed of code path v left.
RecordedStore(v, doc, w) == RecordUnknown(SeededStore(v, doc), w, <<"y">>, 0)

ToolStores(doc) ==
    { SeededStore(v, doc) : v \in Variants }
    \cup { DoubledStore(v, doc, t) : v \in Variants, t \in 0..MaxClock }
    \cup { BurstStore }
    \cup { RecordedStore(v, doc, v) : v \in Variants }

LastCreated(st) == IF st = <<>> THEN 0 ELSE st[Len(st)].created_at

InitTools ==
    /\ summary \in SummaryDocs
    /\ store \in ToolStores(summary)
    /\ now = LastCreated(store)
    /\ StoreIdle
    /\ TurnIdle

\* A conversation calls a tool that writes to the store.
WriteToolCall(v, tool, q, a) ==
    /\ toolWrites < MaxToolWrites
    /\ \E e \in WriteEffects(store, v, tool, q, a, now) :
          /\ store' = e.store
          /\ lastWrite' = [tool |-> tool, v |-> v, q |-> q,
                           a |-> IF tool = "record_unknown_question"
                                 THEN PlaceholderAnswer(v) ELSE a,
                           db |-> e.db, id |-> e.id, out |-> e.out]
    /\ lastRead' = NoOp
    /\ toolWrites' = toolWrites + 1
    /\ UNCHANGED <<now, summary, seedPc, seedTodo, seedCalls, seedPassed,
                   seedOverlap, seedVariants>>
    /\ UNCHANGED turnVars

\* A conversation calls a tool that writes nothing (a second such call in a
\* row reaches the states the first one reaches).
ReadToolCall(v, tool, q, limit, email) ==
    /\ lastRead = NoOp
    /\ \E e \in ReadOutcomes(store, v, tool, q, limit, email) :
          lastRead' = [tool |-> tool, v |-> v] @@ e
    /\ UNCHANGED <<store, now, summary, seedPc, seedTodo, seedCalls,
                   seedPassed, seedOverlap, seedVariants, toolWrites, lastWrite>>
    /\ UNCHANGED turnVars

NextTools ==
    \/ Tick
    \/ \E v \in Variants, tool \in StoreTools, q \in Questions, a \in Answers :
          WriteToolCall(v, tool, q, a)
    \/ \E v \in Variants, tool \in ReadTools, q \in Questions, limit \in Limits,
          email \in Emails :
          ReadToolCall(v, tool, q, limit, email)

SpecTools == InitTools /\ [][NextTools]_vars

\* ---------------------------------------------------------------- start-up
\* seed_database() of the processes that start on one database file, an
\* insert of which can fail.
NextSeed ==
    \/ \E p \in Procs, v \in Variants : SeedFetch(p, v)
    \/ \E p \in Procs : SeedInsert(p)
    \/ \E p \in Procs : SeedFail(p)

SpecSeed == Init /\ [][NextSeed]_vars

\* ------------------------------------------------------------ the parser
\* seed_database() of a process on an empty store, for any document of up to
\* MaxDocLines lines of these kinds: blank, blanks only, level-3 headings
\* (plain, and indented with a trailing blank), a level-2 and a level-4
\* heading, text with a trailing and with a leading blank.
DocLines ==
    { <<>>,
      <<" ">>,
      <<"#", "#", "#", " ", "x">>,
      <<" ", "#", "#", "#", " ", "y", " ">>,
      <<"#", "#", " ", "t">>,
      <<"#", "#", "#", "#", " ", "s">>,
      <<"b", " ">>,
      <<" ", "c">> }

\* content.split("\n") of the documents read.
ParseDocs == UNION { [1..n -> DocLines] : n \in 1..MaxDocLines }

InitParse ==
    /\ summary \in ParseDocs
    /\ store = <<>>
    /\ now = 0
    /\ StoreIdle
    /\ TurnIdle

NextParse == \E p \in Procs, v \in Variants : SeedFetch(p, v)

SpecParse == InitParse /\ [][NextParse]_vars

\* ------------------------------------------------------- chat turn: helpers
\* The value of a list: its dicts, dereferenced.
Deref(ls, ds, l) == [i \in 1..Len(ls[l]) |-> ds[ls[l][i]]]

\* history + [d]: a new list object; the operand list is left as it is.
ListAppendInPlace(ls, l, d) ==
    [lists |-> [ls EXCEPT ![l] = Append(@, d)], ref |-> l]

ListConcat(ls, l, d) ==
    [lists |-> Append(ls, Append(ls[l], d)), ref |-> Len(ls) + 1]

\* The new content of history[-1] on a text delta (CareerManager.run replaces
\* the "..." on the first one, Me.chat_async always appends).
ApplyDeltaReplace(v, first, content, delta) == delta

ApplyDelta(v, first, content, delta) ==
    IF v = "pkg" /\ first THEN delta ELSE content \o delta

\* tripwire_triggered of the guardrail of filter k, given what its classifier
\* returned.
TripwireAll(k, flagged) == flagged

TripwireTriggered(k, flagged) ==
    IF k = "inappropriate" THEN flagged
    ELSE IF k = "injection" THEN flagged
    ELSE FALSE

\* The except clause of the generator: the exceptions it handles.
CaughtAny(exc) == TRUE

Caught(exc) == exc = "InputGuardrailTripwireTriggered"

\* Where the agent run goes after a tool returned a result: the result goes
\* back to the model, whatever the tool and whatever it returned.
AfterToolStopOnAccept(tool, result) ==
    IF tool = "evaluate_my_response" /\ result = "accept" THEN "final" ELSE "call"

AfterTool(tool, result) == "call"

LastDict == lists[history][Len(lists[history])]

AssistantText(snap) == snap[Len(snap)].content

\* ------------------------------------------------------- chat turn: actions
\* Runner.run_streamed() returns at once.  The agent run (model calls, tool
\* calls) and the input guardrails registered on the agent go on in the
\* background; the generator sees them only through stream_events(), one
\* event or one exception at a time.  Neither generator awaits the guardrails
\* before it enters the event loop, so a guardrail can return before, between
\* or after the events of the agent run.  Each action below is one such
\* arrival together with what the generator does on it.
InitTurn ==
    /\ store = << [id |-> 1, question |-> TurnQuestion, answer |-> <<"b">>,
                    created_at |-> 0] >>
    /\ now = 0
    /\ summary = << <<>> >>
    /\ StoreIdle
    /\ impl \in Variants
    /\ pc = "start"
    /\ \E h \in InputHistories :
          /\ dicts = h
          /\ lists = << [i \in 1..Len(h) |-> i] >>
          /\ input0 = h
    /\ history = 1
    /\ first_token = TRUE
    /\ emitted = <<>>
    /\ store0 = store
    /\ verdict = [k \in Filters |-> "pending"]
    /\ agentPc = "idle"
    /\ modelCalls = 0
    /\ nDeltas = 0
    /\ deltaText = <<>>
    /\ nTools = 0
    /\ evals = <<>>
    /\ regens = 0
    /\ errs = <<>>

\* history = history + [user message]; yield history
Begin ==
    /\ UNCHANGED regens
    /\ pc = "start"
    /\ LET d == Len(dicts) + 1
           r == ListConcat(lists, history, d)
       IN /\ dicts' = Append(dicts, [role |-> "user", content |-> Message])
          /\ lists' = r.lists
          /\ history' = r.ref
          /\ emitted' = Append(emitted, Deref(r.lists, dicts', r.ref))
    /\ pc' = "run"
    /\ UNCHANGED <<impl, first_token, input0, store0, verdict, agentPc,
                   modelCalls, nDeltas, deltaText, nTools, evals, errs>>
    /\ UNCHANGED storeVars

\* input_items; Runner.run_streamed(agent, input) starts the agent run and
\* the four input guardrails; history = history + [placeholder];
\* CareerManager.run yields it, Me.chat_async does not.
StartRun ==
    /\ UNCHANGED regens
    /\ pc = "run"
    /\ LET d == Len(dicts) + 1
           r == ListConcat(lists, history, d)
       IN /\ dicts' = Append(dicts, [role |-> "assistant", content |-> Placeholder(impl)])
          /\ lists' = r.lists
          /\ history' = r.ref
          /\ emitted' = IF impl = "pkg"
                          THEN Append(emitted, Deref(r.lists, dicts', r.ref))
                          ELSE emitted
    /\ first_token' = TRUE
    /\ agentPc' = "call"
    /\ pc' = "stream"
    /\ UNCHANGED <<impl, input0, store0, verdict, modelCalls, nDeltas,
                   deltaText, nTools, evals, errs>>
    /\ UNCHANGED storeVars

\* An exception exc leaves stream_events(): the except clause appends the
\* redirect turn and yields, any other exception leaves the generator.
Raise(exc) ==
    IF Caught(exc)
    THEN LET d == Len(dicts) + 1
             r == ListConcat(lists, history, d)
         IN /\ dicts' = Append(dicts, [role |-> "assistant", content |-> RedirectText])
            /\ lists' = r.lists
            /\ history' = r.ref
            /\ emitted' = Append(emitted, Deref(r.lists, dicts', r.ref))
            /\ pc' = "blocked"
    ELSE /\ pc' = "failed"
         /\ UNCHANGED <<dicts, lists, history, emitted>>

\* The classifier of filter k returns; its guardrail trips or not.
GuardrailReturn(k, flagged) ==
    /\ UNCHANGED regens
    /\ pc = "stream"
    /\ verdict[k] = "pending"
    /\ verdict' = [verdict EXCEPT ![k] = IF flagged THEN "yes" ELSE "no"]
    /\ IF TripwireTriggered(k, flagged)
       THEN Raise("InputGuardrailTripwireTriggered")
       ELSE UNCHANGED <<pc, dicts, lists, history, emitted>>
    /\ UNCHANGED <<impl, first_token, input0, store0, agentPc, modelCalls,
                   nDeltas, deltaText, nTools, evals, errs>>
    /\ UNCHANGED storeVars

\* The classifier call of filter k fails.
GuardrailError(k) ==
    /\ UNCHANGED regens
    /\ pc = "stream"
    /\ verdict[k] = "pending"
    /\ verdict' = [verdict EXCEPT ![k] = "error"]
    /\ errs' = Append(errs, "classifier")
    /\ Raise("APIError")
    /\ UNCHANGED <<impl, first_token, input0, store0, agentPc, modelCalls,
                   nDeltas, deltaText, nTools, evals>>
    /\ UNCHANGED storeVars

\* The agent loop calls the model.
ModelCall ==
    /\ pc = "stream"
    /\ agentPc = "call"
    /\ modelCalls < MaxModelCalls
    /\ agentPc' = "responding"
    /\ modelCalls' = modelCalls + 1
    /\ regens' = IF evals # <<>> /\ evals[Len(evals)] = "reject"
                 THEN regens + 1 ELSE regens
    /\ UNCHANGED <<impl, pc, dicts, lists, history, first_token, emitted,
                   input0, store0, verdict, nDeltas, deltaText, nTools,
                   evals, errs>>
    /\ UNCHANGED storeVars

\* A raw_response_event with a ResponseTextDeltaEvent arrives.
ModelDelta(delta) ==
    /\ UNCHANGED regens
    /\ pc = "stream"
    /\ agentPc = "responding"
    /\ nDeltas < MaxDeltas
    /\ dicts' = [dicts EXCEPT ![LastDict].content = ApplyDelta(impl, first_token, @, delta)]
    /\ first_token' = IF impl = "pkg" THEN FALSE ELSE first_token
    /\ emitted' = Append(emitted, Deref(lists, dicts', history))
    /\ nDeltas' = nDeltas + 1
    /\ deltaText' = deltaText \o delta
    /\ UNCHANGED <<impl, pc, lists, history, input0, store0, verdict, agentPc,
                   modelCalls, nTools, evals, errs>>
    /\ UNCHANGED storeVars

\* The model call fails.
ModelError ==
    /\ UNCHANGED regens
    /\ pc = "stream"
    /\ agentPc = "responding"
    /\ errs' = Append(errs, "model")
    /\ Raise("APIError")
    /\ UNCHANGED <<impl, first_token, input0, store0, verdict, agentPc,
                   modelCalls, nDeltas, deltaText, nTools, evals>>
    /\ UNCHANGED storeVars

\* The model asks for one of the Q&A or email tools; the tool runs and its
\* result goes back to the model.
ToolDispatch(tool, q, a) ==
    /\ UNCHANGED regens
    /\ pc = "stream"
    /\ agentPc = "responding"
    /\ nTools < MaxTools
    /\ store' \in ToolEffects(store, impl, tool, q, a, now)
    /\ nTools' = nTools + 1
    /\ agentPc' = AfterTool(tool, "ok")
    /\ UNCHANGED <<now, summary, seedPc, seedTodo, seedCalls, seedPassed,
                   seedOverlap, seedVariants, toolWrites, lastWrite, lastRead>>
    /\ UNCHANGED <<impl, pc, dicts, lists, history, first_token, emitted,
                   input0, store0, verdict, modelCalls, nDeltas, deltaText,
                   evals, errs>>

\* The model asks for evaluate_my_response; the evaluator agent returns its
\* Evaluation, which goes back to the model.
EvaluatorReturn(result) ==
    /\ UNCHANGED regens
    /\ pc = "stream"
    /\ agentPc = "responding"
    /\ nTools < MaxTools
    /\ nTools' = nTools + 1
    /\ evals' = Append(evals, result)
    /\ agentPc' = AfterTool("evaluate_my_response", result)
    /\ UNCHANGED <<impl, pc, dicts, lists, history, first_token, emitted,
                   input0, store0, verdict, modelCalls, nDeltas, deltaText,
                   errs>>
    /\ UNCHANGED storeVars

\* The evaluator call inside evaluate_my_response fails.  The tool is built
\* by Agent.as_tool with no error handler of this repository: the failure is
\* either handed to the model as the tool's output or leaves the run.
EvaluatorError(raised) ==
    /\ UNCHANGED regens
    /\ pc = "stream"
    /\ agentPc = "responding"
    /\ nTools < MaxTools
    /\ nTools' = nTools + 1
    /\ errs' = Append(errs, "evaluator")
    /\ IF raised
       THEN /\ Raise("APIError")
            /\ UNCHANGED agentPc
       ELSE /\ agentPc' = AfterTool("evaluate_my_response", "error")
            /\ UNCHANGED <<pc, dicts, lists, history, emitted>>
    /\ UNCHANGED <<impl, first_token, input0, store0, verdict, modelCalls,
                   nDeltas, deltaText, evals>>
    /\ UNCHANGED storeVars

\* The model answers without asking for a tool.
ModelFinal ==
    /\ UNCHANGED regens
    /\ pc = "stream"
    /\ agentPc = "responding"
    /\ agentPc' = "final"
    /\ UNCHANGED <<impl, pc, dicts, lists, history, first_token, emitted,
                   input0, store0, verdict, modelCalls, nDeltas, deltaText,
                   nTools, evals, errs>>
    /\ UNCHANGED storeVars

\* stream_events() ends: the run is complete and every guardrail returned.
StreamEndAfterTool ==
    /\ UNCHANGED regens
    /\ pc = "stream"
    /\ agentPc \in {"call", "final"}
    /\ nTools > 0 \/ agentPc = "final"
    /\ \A k \in Filters : verdict[k] \in {"yes", "no"}
    /\ pc' = "done"
    /\ UNCHANGED <<impl, dicts, lists, history, first_token, emitted, input0,
                   store0, verdict, agentPc, modelCalls, nDeltas, deltaText,
                   nTools, evals, errs>>
    /\ UNCHANGED storeVars

StreamEnd ==
    /\ UNCHANGED regens
    /\ pc = "stream"
    /\ agentPc = "final"
    /\ \A k \in Filters : verdict[k] \in {"yes", "no"}
    /\ pc' = "done"
    /\ UNCHANGED <<impl, dicts, lists, history, first_token, emitted, input0,
                   store0, verdict, agentPc, modelCalls, nDeltas, deltaText,
                   nTools, evals, errs>>
    /\ UNCHANGED storeVars

NextTurn ==
    \/ Begin
    \/ StartRun
    \/ \E k \in Filters, flagged \in BOOLEAN : GuardrailReturn(k, flagged)
    \/ \E k \in Filters : GuardrailError(k)
    \/ ModelCall
    \/ \E delta \in Deltas : ModelDelta(delta)
    \/ ModelError
    \/ \E tool \in StoreTools \cup ReadTools :
          ToolDispatch(tool, TurnQuestion, TurnAnswer)
    \/ \E result \in {"accept", "reject"} : EvaluatorReturn(result)
    \/ \E raised \in BOOLEAN : EvaluatorError(raised)
    \/ ModelFinal
    \/ StreamEnd

SpecTurn == InitTurn /\ [][NextTurn]_vars

\* The guardrail tasks and the agent run are scheduled by the event loop:
\* a classifier call that is pending returns or fails, and stream_events()
\* ends once the run is complete and the guardrails are in.
GuardrailArrives(k) ==
    \/ \E flagged \in BOOLEAN : GuardrailReturn(k, flagged)
    \/ GuardrailError(k)

SpecTurnFair ==
    /\ SpecTurn
    /\ \A k \in Filters : WF_vars(GuardrailArrives(k))
    /\ WF_vars(StreamEnd)


\* =================================================================== claims
AllSeedsIdle == \A p \in Procs : seedPc[p] = "idle"

LastEmitted == emitted[Len(emitted)]

\* The turns of an emission that precede its in-progress assistant turn.
Settled(snap) ==
    IF Len(snap) > Len(input0) + 1 THEN SubSeq(snap, 1, Len(snap) - 1) ELSE snap

\* The emissions made on a text delta: the last nDeltas ones of a turn that
\* has not been blocked.
DeltaEmissions == (Len(emitted) - nDeltas + 1)..Len(emitted)

\* C1: when the inappropriate-content or the prompt-injection filter returns
\* a positive verdict, the last assistant turn handed to the caller is the
\* redirect text, no text delta of the model was handed to the caller and no
\* tool ran in the turn.
C1_BlockedTurnShowsOnlyRedirect ==
    (pc = "blocked" /\ \E k \in Blocking : verdict[k] = "yes") =>
        /\ AssistantText(LastEmitted) = RedirectText
        /\ nDeltas = 0
        /\ nTools = 0

\* C2: no text delta is handed to the caller and no tool is dispatched while
\* the verdict of the inappropriate-content or of the prompt-injection filter
\* is still pending.
C2_WaitsForBlockingFilters ==
    [][(nDeltas' > nDeltas \/ nTools' > nTools) =>
          \A k \in Blocking : verdict[k] # "pending"]_vars

\* C3: after a turn the prompt-injection filter flagged, the store is what it
\* was when the turn began.
C3_InjectionLeavesStore ==
    (pc = "blocked" /\ verdict["injection"] = "yes") => store = store0

\* C4: the off-topic and competitor-mention filters never block: a turn is
\* blocked only on a positive verdict of a blocking filter, and the step at
\* which an advisory classifier returns, whatever it returns, changes nothing
\* of the turn but the recorded verdict.
C4_AdvisoryNeverBlocks ==
    /\ [](pc = "blocked" => \E k \in Blocking : verdict[k] = "yes")
    /\ [][(\E k \in Filters \ Blocking :
                verdict'[k] # verdict[k] /\ verdict'[k] \in {"yes", "no"}) =>
             /\ pc' = pc
             /\ agentPc' = agentPc
             /\ emitted' = emitted
             /\ dicts' = dicts
             /\ history' = history]_vars

C4_Witness ==
    /\ pc = "done"
    /\ verdict["off_topic"] = "yes"
    /\ verdict["competitor"] = "yes"
    /\ \A k \in Blocking : verdict[k] = "no"
    /\ nDeltas > 0

\* C5 as stated: at the end of an unblocked turn, every emission that ends
\* in the assistant turn is a prefix of the next one.
C5_EveryEmissionExtendsPrevious ==
    pc = "done" =>
        \A i \in 2..(Len(emitted) - 1) :
            /\ IsPrefix(AssistantText(emitted[i]), AssistantText(emitted[i + 1]))
            /\ Len(AssistantText(emitted[i])) <= Len(AssistantText(emitted[i + 1]))

\* C5 amended: in a turn that is not blocked, the emissions made on a text
\* delta are cumulative: each is a prefix of the next, and the latest one is
\* the concatenation of all text deltas received.
C5_DeltaEmissionsCumulative ==
    (pc \in {"stream", "done"} /\ nDeltas > 0) =>
        /\ \A i \in DeltaEmissions : i < Len(emitted) =>
              IsPrefix(AssistantText(emitted[i]), AssistantText(emitted[i + 1]))
        /\ AssistantText(LastEmitted) = deltaText

C5_Witness ==
    /\ pc = "done"
    /\ impl = "pkg"
    /\ nDeltas >= 2
    /\ AssistantText(emitted[2]) = Placeholder("pkg")

C8_EmissionsAppendOnly ==
    /\ Deref(lists, dicts, 1) = input0
    /\ emitted # <<>> =>
          emitted[1] = Append(input0, [role |-> "user", content |-> Message])
    /\ \A i \in 1..(Len(emitted) - 1) :
          IsPrefix(Settled(emitted[i]), emitted[i + 1])

C8_Witness ==
    /\ pc = "done"
    /\ input0 # <<>>
    /\ nDeltas > 0
    /\ Len(emitted) >= 3

\* C9: a seed_database() call inserts only when it found the store empty; a
\* call on a store that holds a row changes nothing; after seed calls of one
\* variant made one after the other, with no other writer, the store holds
\* exactly the pairs one call inserts.
C9_SeedIdempotent ==
    /\ [][\A p \in Procs :
             (seedPc[p] = "idle" /\ seedPc'[p] = "inserting") => Len(store) = 0]_vars
    /\ [][(seedCalls' = seedCalls + 1 /\ Len(store) > 0) =>
             /\ store' = store
             /\ seedTodo' = seedTodo
             /\ seedPc' = seedPc]_vars
    /\ [](\A v \in Variants :
             (/\ seedCalls >= 1
              /\ seedVariants = {v}
              /\ ~seedOverlap
              /\ toolWrites = 0
              /\ AllSeedsIdle) => Pairs(store) = SeedEntries(v, summary))

C9_Witness ==
    /\ seedCalls = 2
    /\ ~seedOverlap
    /\ toolWrites = 0
    /\ AllSeedsIdle
    /\ Len(store) > 0
    /\ \E v \in Variants : seedVariants = {v} /\ Pairs(store) = SeedEntries(v, summary)

\* C10: two seed_database() calls of one variant that both found the store
\* empty leave every seed pair in the store twice.
C10_ConcurrentSeedsDouble ==
    \A v \in Variants :
        (/\ seedCalls = 2
         /\ \A p \in Procs : seedPassed[p] = 1
         /\ seedVariants = {v}
         /\ toolWrites = 0
         /\ AllSeedsIdle) =>
            /\ Len(store) = 2 * Len(SeedEntries(v, summary))
            /\ \A i \in 1..Len(SeedEntries(v, summary)) :
                  CountPair(store, SeedEntries(v, summary)[i]) = 2

C10_Witness ==
    /\ seedOverlap
    /\ \A p \in Procs : seedPassed[p] = 1
    /\ AllSeedsIdle
    /\ toolWrites = 0
    /\ seedVariants = {"pkg"}
    /\ Len(store) = 2 * Len(SeedEntries("pkg", summary))
    /\ Len(store) >= 2

\* ------------------------------------------------------ claims: tool calls
\* The step is a call of this write tool that the database took.
Wrote(tool) ==
    /\ toolWrites' = toolWrites + 1
    /\ lastWrite'.tool = tool
    /\ lastWrite'.db = "ok"

\* Every row of st is the same row of st2.
RowsKept(st, st2) ==
    /\ Len(st2) >= Len(st)
    /\ \A i \in 1..Len(st) : st2[i] = st[i]

\* C11: an insert (add_qa_to_database, and the insert record_unknown_question
\* makes) adds exactly one row, carrying the question and the answer given,
\* also when a row with that question exists already, and leaves every
\* existing row as it was.
C11_InsertAddsOneRow ==
    [][ (Wrote("add_qa_to_database") \/ Wrote("record_unknown_question"))
          => /\ Len(store') = Len(store) + 1
             /\ RowsKept(store, store')
             /\ store'[Len(store')].question = lastWrite'.q
             /\ store'[Len(store')].answer = lastWrite'.a
             /\ lastWrite'.out.kind = "result" ]_vars

\* add_qa_to_database has added a row for a question another row holds.
C11_Witness ==
    /\ lastWrite.tool = "add_qa_to_database"
    /\ lastWrite.db = "ok"
    /\ lastWrite.id = Len(store)
    /\ store[Len(store)].question = lastWrite.q
    /\ store[Len(store)].answer = lastWrite.a
    /\ \E i \in 1..(Len(store) - 1) : store[i].question = lastWrite.q

\* The rows of st whose question is q.
Matching(st, q) == { i \in 1..Len(st) : st[i].question = q }

\* The most recently created row of a non-empty set of rows: the one inserted
\* last.
Newest(S) == CHOOSE i \in S : \A j \in S : j <= i

\* C12: an update for a question that rows hold replaces the answer of the
\* most recently created of those rows and of no other row, returns true, and
\* changes no row's question, id or creation time.
C12_UpdateHitsNewestRow ==
    [][ (Wrote("update_qa_answer") /\ Matching(store, lastWrite'.q) # {})
          => /\ lastWrite'.out = Returned([updated |-> TRUE,
                    message |-> <<"Successfully updated answer for: ">> \o lastWrite'.q])
             /\ Len(store') = Len(store)
             /\ \A i \in 1..Len(store) :
                   store'[i] = IF i = Newest(Matching(store, lastWrite'.q))
                               THEN [store[i] EXCEPT !.answer = lastWrite'.a]
                               ELSE store[i] ]_vars

\* C13: an update for a question no row holds returns updated: false, raises
\* nothing and leaves the store as it was.
C13_UpdateWithoutMatch ==
    [][ (Wrote("update_qa_answer") /\ Matching(store, lastWrite'.q) = {})
          => /\ lastWrite'.out.kind = "result"
             /\ lastWrite'.out.value.updated = FALSE
             /\ store' = store ]_vars

\* update_qa_answer was called for a question no row of a non-empty store
\* holds.
C13_Witness ==
    /\ lastWrite.tool = "update_qa_answer"
    /\ lastWrite.db = "ok"
    /\ Matching(store, lastWrite.q) = {}
    /\ Len(store) > 0
    /\ lastWrite.out.value.updated = FALSE

\* The read tool call just made found the database working.
Read(tool) == lastRead.tool = tool /\ lastRead.db = "ok"

\* The write tool call before it went through.
Written(tool) == lastWrite.tool = tool /\ lastWrite.db = "ok"

\* search_qa_database returned a match.
Found ==
    /\ lastRead.out.kind = "result"
    /\ "found" \in DOMAIN lastRead.out.value
    /\ lastRead.out.value.found = TRUE

\* C14: after update_qa_answer(question, X) stored a real answer X, a search
\* for that question that follows directly and answers from a row of that
\* question returns X, never the answer of an older row of the same question.
C14_SearchAfterUpdateGivesNewAnswer ==
    ( /\ Written("update_qa_answer")
      /\ lastWrite.id # 0
      /\ lastWrite.a = <<"b">>
      /\ Read("search_qa_database")
      /\ lastRead.v = lastWrite.v
      /\ lastRead.q = lastWrite.q
      /\ Found
      /\ lastRead.from # 0
      /\ store[lastRead.from].question = lastWrite.q )
    => lastRead.out.value.answer = lastWrite.a

\* Every row holds the text the searching code filters on.
AllSentinel(v) ==
    \A i \in 1..Len(store) : Contains(store[i].answer, SentinelMarker(v))

C16_RecordedRowNeverAnswered ==
    (Written("record_unknown_question") /\ Read("search_qa_database"))
    => lastWrite.id \notin lastRead.context

\* The entries list_recent_qa returned.
Listed == lastRead.out.value.qa_pairs

\* C17: right after record_unknown_question inserted its row, the same code
\* path's search_qa_database leaves the row out of the matcher context and its
\* list_recent_qa (default limit) returns the row, flagged needs_answer.
C17_RecordedRowListedNotSearched ==
    (Written("record_unknown_question") /\ lastRead.tool # "none"
       /\ lastRead.v = lastWrite.v)
    => /\ Read("search_qa_database") => lastWrite.id \notin lastRead.context
       /\ (Read("list_recent_qa") /\ lastRead.limit = DefaultLimit)
             => \E i \in 1..Len(Listed) :
                   /\ Listed[i].id = lastWrite.id
                   /\ Listed[i].needs_answer

\* C18: no tool call raises: whatever fails, the tool returns a result.
C18_NoToolRaises ==
    /\ lastWrite.tool # "none" => lastWrite.out.kind = "result"
    /\ lastRead.tool # "none" => lastRead.out.kind = "result"

\* The matcher replied with a JSON object of the shape the prompt asks for.
Conforming(content) ==
    /\ content.syntax = "json"
    /\ DOMAIN content.value = {"found", "answer"}

\* C19: when the matcher's reply is no conforming JSON object,
\* search_qa_database ends with an error and returns nothing.
C19_MalformedReplyIsFatal ==
    ( /\ Read("search_qa_database")
      /\ lastRead.called
      /\ lastRead.content # NoContent
      /\ ~Conforming(lastRead.content) )
    => lastRead.out.kind = "raised"

\* The SendGrid block of send_contact_email raised.
TransportRaised ==
    /\ lastRead.tool = "send_contact_email"
    /\ lastRead.transport \in ErrorTexts

\* C20: when the email transport fails, send_contact_email raises nothing: it
\* returns status "error" with a message that does not hold the text of the
\* transport's error.
C20_TransportFailureReturnsError ==
    TransportRaised
    => /\ lastRead.out.kind = "result"
       /\ lastRead.out.value.status = "error"
       /\ ~Contains(lastRead.out.value.message, lastRead.transport)
       /\ Contains(lastRead.out.value.message, lastRead.email)

\* The transport failed with an error of neither of the two kinds the handler
\* tells apart.
C20_Witness ==
    /\ TransportRaised
    /\ lastRead.transport = <<"e", "timeout">>
    /\ lastRead.out.value.status = "error"

\* C21: list_recent_qa(limit) returns at most limit entries and none for a
\* limit of zero or less; for a limit >= 0 it returns min(limit, n) entries of
\* a store of n rows; count is the number of entries returned, and an entry
\* is flagged needs_answer exactly when its answer holds the sentinel the
\* listing code looks for.
C21_ListRecentWithinLimit ==
    (Read("list_recent_qa") /\ lastRead.out.kind = "result")
    => /\ Len(Listed) <= (IF lastRead.limit > 0 THEN lastRead.limit ELSE 0)
       /\ lastRead.limit >= 0
             => Len(Listed) = (IF lastRead.limit < Len(store)
                               THEN lastRead.limit ELSE Len(store))
       /\ lastRead.out.value.count = Len(Listed)
       /\ \A i \in 1..Len(Listed) :
             Listed[i].needs_answer
                <=> Contains(Listed[i].answer, SentinelMarker(lastRead.v))

\* C22: fetch_all_qa returns every row once, newest first: in what
\* list_recent_qa passes on of it for a store within the default limit, every
\* row of the store appears, and a row created later (greater id) never comes
\* after a row created earlier, rows of one second included.
C22_FetchAllNewestFirst ==
    ( /\ Read("list_recent_qa")
      /\ lastRead.out.kind = "result"
      /\ lastRead.limit = DefaultLimit
      /\ Len(store) <= DefaultLimit )
    => /\ Len(Listed) = Len(store)
       /\ \A i \in 1..Len(store) : \E k \in 1..Len(Listed) : Listed[k].id = i
       /\ \A k, l \in 1..Len(Listed) : k < l => Listed[k].id > Listed[l].id

\* ------------------------------------------------------ claims: the parser
\* A heading: a line whose text without the blanks around it starts with #.
IsHeading(line) == StartsWith(Strip(line), <<"#">>)

\* A level-3 heading: ### and a blank, then the question.
IsQuestionLine(line) == StartsWith(Strip(line), H3)

\* The first heading after line i, or the line after the last.
AnswerEnd(lines, i) ==
    IF \E j \in (i + 1)..Len(lines) : IsHeading(lines[j])
    THEN CHOOSE j \in (i + 1)..Len(lines) :
            /\ IsHeading(lines[j])
            /\ \A k \in (i + 1)..(j - 1) : ~IsHeading(lines[k])
    ELSE Len(lines) + 1

\* The lines between heading i and the next heading, as one text: every line
\* without its trailing blanks, joined by newlines, without the blank lines
\* and blanks at its start and end.
AnswerOf(lines, i) ==
    LET body == SubSeq(lines, i + 1, AnswerEnd(lines, i) - 1)
    IN Strip(JoinNl([k \in 1..Len(body) |-> RStrip(body[k])]))

\* The entries the document holds from line i on, in document order.
RECURSIVE EntriesFrom(_, _)
EntriesFrom(lines, i) ==
    IF i > Len(lines) THEN <<>>
    ELSE IF IsQuestionLine(lines[i]) /\ AnswerOf(lines, i) # <<>>
    THEN << [question |-> SubSeq(Strip(lines[i]), 5, Len(Strip(lines[i]))),
             answer |-> AnswerOf(lines, i)] >> \o EntriesFrom(lines, i + 1)
    ELSE EntriesFrom(lines, i + 1)

\* C23: parsing the document yields, in document order, one entry per level-3
\* heading with a non-empty answer: the question is the heading text, the
\* answer the lines up to the next heading of any level without leading blank
\* lines and trailing blanks, inner blank lines kept; a heading that ends an
\* answer is examined as a question itself.  seed_database() of app.py takes
\* exactly these entries, the package's takes them before its fixed pairs.
C23_ParseYieldsHeadingEntries ==
    \A p \in Procs :
        seedPassed[p] >= 1
        => /\ seedVariants = {"app"} => seedTodo[p] = EntriesFrom(summary, 1)
           /\ seedVariants = {"pkg"}
                 => seedTodo[p] = EntriesFrom(summary, 1) \o get_resume_linkedin_qa

\* A document of two level-3 headings with an answer each: the heading that
\* ended the first answer gave the second entry.
C23_Witness ==
    /\ seedVariants = {"app"}
    /\ seedPassed[1] = 1
    /\ Len(summary) = 4
    /\ IsQuestionLine(summary[1])
    /\ IsQuestionLine(summary[3])
    /\ Len(seedTodo[1]) = 2
    /\ seedTodo[1][1].question = <<"x">>
    /\ seedTodo[1][2].question = <<"y">>

\* ----------------------------------------------------- claims: the store
\* C24: no step deletes a row or changes a row's id, question or creation
\* time; a row's answer changes only in a step of update_qa_answer, which adds
\* no row.
C24_RowsNeverDeleted ==
    [][ /\ Len(store') >= Len(store)
        /\ \A i \in 1..Len(store) :
              /\ store'[i].id = store[i].id
              /\ store'[i].question = store[i].question
              /\ store'[i].created_at = store[i].created_at
              /\ store'[i].answer # store[i].answer
                    => /\ toolWrites' = toolWrites + 1
                       /\ \E q \in Questions, a \in Answers :
                             store' \in UpdateQaAnswer(store, q, a) ]_vars

\* After one seed, a tool call has changed the answer of a seeded row and the
\* store holds the seeded rows and no other.
C24_Witness ==
    /\ toolWrites = 1
    /\ AllSeedsIdle
    /\ ~seedOverlap
    /\ \E p \in Procs : seedPassed[p] = 1
    /\ \E v \in Variants :
          /\ seedVariants = {v}
          /\ Len(store) = Len(SeedEntries(v, summary))
          /\ Pairs(store) # SeedEntries(v, summary)

\* The pairs of one seed_database() call that process p did not insert.
Missing(p) == seedTodo[p]

\* C30: when a seed fails after some of its inserts, the rows inserted stay;
\* every seed call that finds them inserts nothing, so with no seed call that
\* found the store empty but the failed one the store holds the entries
\* inserted before the failure and never the missing ones.
C30_PartialSeedStays ==
    \A p \in Procs, v \in Variants :
        ( /\ seedPc[p] = "failed"
          /\ seedVariants = {v}
          /\ \A o \in Procs \ {p} : seedPassed[o] = 0 )
        => /\ Pairs(store) \o Missing(p) = SeedEntries(v, summary)
           /\ \A o \in Procs \ {p} : seedPc[o] = "idle" /\ seedTodo[o] = <<>>

\* A seed failed after its first insert and a later seed call has returned:
\* the store holds one row, the second entry is missing.
C30_Witness ==
    /\ seedPc[1] = "failed"
    /\ seedCalls = 2
    /\ seedPassed[2] = 0
    /\ seedVariants = {"pkg"}
    /\ Len(store) = 1
    /\ Len(Missing(1)) = 1
    /\ Len(SeedEntries("pkg", summary)) = 2

\* ------------------------------------------- claims: answered and unanswered
\* C28: a row that add_qa_to_database or update_qa_answer wrote is counted as
\* answered whatever its answer text: a search that follows has it in the
\* matcher context, and a list_recent_qa that returns it reports needs_answer
\* false.
C28_WrittenAnswerCountsAsAnswered ==
    ( /\ Written("add_qa_to_database") \/ Written("update_qa_answer")
      /\ lastWrite.id # 0
      /\ lastRead.tool # "none"
      /\ lastRead.v = lastWrite.v )
    => /\ Read("search_qa_database") => lastWrite.id \in lastRead.context
       /\ (Read("list_recent_qa") /\ lastRead.out.kind = "result")
             => \A k \in 1..Len(Listed) :
                   Listed[k].id = lastWrite.id => ~Listed[k].needs_answer

\* Row i holds what record_unknown_question of some code path wrote.
IsSentinelRow(st, i) == \E v \in Variants : st[i].answer = PlaceholderAnswer(v)

\* C29: update_qa_answer(q, a) with a real answer a, on a store whose only
\* row for q is the one record_unknown_question(q) wrote, leaves the row
\* count as it was and no sentinel row for q; every search that follows has
\* the row in the matcher context and every list_recent_qa that returns it
\* reports needs_answer false.
C29_UpdateAnswersRecordedGap ==
    [][ ( /\ Wrote("update_qa_answer")
          /\ Cardinality(Matching(store, lastWrite'.q)) = 1
          /\ \A i \in Matching(store, lastWrite'.q) : IsSentinelRow(store, i) )
        => /\ Len(store') = Len(store)
           /\ \A i \in Matching(store', lastWrite'.q) :
                 /\ ~IsSentinelRow(store', i)
                 /\ store'[i].answer = lastWrite'.a
                 /\ \A v \in Variants :
                       /\ \A e \in SearchOutcomes(store', v, lastWrite'.q) :
                             e.db = "ok" => i \in e.context
                       /\ \A e \in ListOutcomes(store', v, DefaultLimit) :
                             e.db = "ok"
                             => \A k \in 1..Len(e.out.value.qa_pairs) :
                                   e.out.value.qa_pairs[k].id = i
                                   => ~e.out.value.qa_pairs[k].needs_answer ]_vars

\* ------------------------------------------------ claims: the turn's history
\* The value of the generator's history list.
HistoryValue == Deref(lists, dicts, history)

\* C26: a turn that completes without an error, blocked or not, extends the
\* caller's history by exactly two turns, the user message and one assistant
\* turn; after a blocked turn the assistant turn is the redirect reply.
C26_TurnAddsUserAndOneAssistant ==
    pc \in {"done", "blocked"} =>
        /\ Len(HistoryValue) = Len(input0) + 2
        /\ SubSeq(HistoryValue, 1, Len(input0)) = input0
        /\ HistoryValue[Len(input0) + 1] = [role |-> "user", content |-> Message]
        /\ HistoryValue[Len(HistoryValue)].role = "assistant"
        /\ LastEmitted = HistoryValue
        /\ pc = "blocked" => AssistantText(HistoryValue) = RedirectText

\* C27: at the end of an unblocked turn the content of the last assistant
\* turn is the concatenation, in order, of the text deltas the stream
\* carried; it is empty when the stream carried none.
C27_ReplyIsConcatenatedDeltas ==
    pc = "done" =>
        /\ AssistantText(HistoryValue) = deltaText
        /\ nDeltas = 0 => AssistantText(HistoryValue) = <<>>

\* ------------------------------------------------------ claims: the tool loop
TurnEnded == pc \in {"done", "blocked", "failed"}

====
